---------------------------- MODULE Spec2Model ----------------------------
(***************************************************************************)
(* Model of the Interac e-transfer backend (src/server.js, src/schema.sql).*)
(*                                                                         *)
(* The two POST handlers are async functions: each `await` is a point at   *)
(* which other handlers run, so every handler is split into one action per *)
(* awaited statement (a store query or the provider call).  The store is   *)
(* the two tables of schema.sql with their constraints.  Each handler      *)
(* instance serves one request; `sent` is the HTTP response written by the *)
(* step just taken, and a finished handler keeps nothing.                  *)
(*                                                                         *)
(* Conventions: a JSON field that is absent (JS undefined) is a field      *)
(* absent from the record; SQL NULL is the value NULL; the transfer id     *)
(* 'TRF_' + Date.now() + '_' + random is the number of the request that    *)
(* generated it (distinct requests generate distinct ids).                 *)
(***************************************************************************)
EXTENDS Integers, Sequences, FiniteSets, TLC

\* ------------------------------------------------------------------ bounds
\* Number of requests the server receives in a run, createTransfer requests and
\* webhook deliveries together; they are served concurrently.
MaxRequests == 3

\* Handlers of POST /api/payouts/interac and of POST /webhooks/interac
Reqs == 1..MaxRequests
Hooks == 1..MaxRequests

\* ------------------------------------------------------- program constants
\* server.js:109, schema.sql:17
MaxAmountCents == 2500000
\* length of the hex digest of an HMAC-SHA256 (server.js:71)
DigestHexLen == 64

NULL == "NULL"
WEBHOOK_SECRET == 3

VARIABLES
    transfers,   \* table transfers: a set of rows
    events,      \* table transfer_events: a sequence of rows (SERIAL id = position)
    req,         \* req[r]: the r-th POST /api/payouts/interac handler
    wh,          \* wh[w]: the w-th POST /webhooks/interac handler
    calls,       \* calls[<<key, user>>]: provider submissions made for that pair
    sent         \* the HTTP response written by the step just taken, if any

vars == <<transfers, events, req, wh, calls, sent>>

\* --------------------------------------------------------- JSON helpers
Has(b, f) == f \in DOMAIN b
\* JS truthiness of a string-valued / number-valued field that may be absent
TruthyStr(b, f) == Has(b, f) /\ b[f] # ""
TruthyNum(b, f) == Has(b, f) /\ b[f] # 0
Without(b, f) == [x \in DOMAIN b \ {f} |-> b[x]]

\* --------------------------------------------------- createTransfer inputs
Body(u, k, a) ==
    [businessUserId |-> u, amountCents |-> a, recipientEmail |-> "rae@x.ca",
     recipientName |-> "Rae", idempotencyKey |-> k]

RequiredFields ==
    {"businessUserId", "amountCents", "recipientEmail", "recipientName", "idempotencyKey"}

CreateBodies ==
    {Body("u1", "k1", 5000), Body("u2", "k1", 5000),
     [Body("u1", "k2", MaxAmountCents) EXCEPT !.recipientName = "Sam"],
     Body("u1", "k1", MaxAmountCents + 1), Body("u1", "k1", 0), Body("u1", "k1", -1)}
    \cup {Without(Body("u1", "k1", 5000), f) : f \in RequiredFields}

Users == {"u1", "u2"}
Keys == {"k1", "k2"}
Pairs == Keys \X Users
PairOf(b) == <<b.idempotencyKey, b.businessUserId>>

\* server.js:105-115: the checks made before the first query, in order.
Validate(b) ==
    IF ~TruthyStr(b, "businessUserId") \/ ~TruthyNum(b, "amountCents")
         \/ ~TruthyStr(b, "recipientEmail")
    THEN "Missing required fields"
    ELSE IF b.amountCents > MaxAmountCents THEN "Exceeds $25K limit"
    ELSE IF ~TruthyStr(b, "idempotencyKey") THEN "Idempotency key required"
    ELSE "ok"

\* --------------------------------------------------------------- the store
\* mutant of SelectByKey: the idempotency check finds nothing
SelectByKeyNothing(b) == {}

\* mutant of SelectByKey: a row that was never submitted does not count
SelectByKeySubmitted(b) ==
    {t \in transfers : /\ t.idempotency_key = b.idempotencyKey
                       /\ t.business_user_id = b.businessUserId
                       /\ t.external_txn_id # NULL}

\* server.js:117-120
SelectByKey(b) ==
    {t \in transfers : t.idempotency_key = b.idempotencyKey
                       /\ t.business_user_id = b.businessUserId}

\* mutant of SelectById: the WHERE clause is lost
SelectByIdAny(id) == transfers

\* server.js:203 / 241
SelectById(id) == {t \in transfers : t.id = id}

\* NOW() in created_at / updated_at / received_at.  The wall clock is not part of
\* the program: a row's updated_at is the number of UPDATEs that refreshed it (its
\* created_at is 0 and is left out), an event's received_at its place in the log.
Tick(at) == at + 1

\* server.js:128-136: the row of the INSERT (pg sends an undefined parameter as NULL)
NewRow(id, b) ==
    [id |-> id,
     external_txn_id |-> NULL,
     idempotency_key |-> b.idempotencyKey,
     business_user_id |-> b.businessUserId,
     recipient_email |-> b.recipientEmail,
     recipient_name |-> IF Has(b, "recipientName") THEN b.recipientName ELSE NULL,
     amount_cents |-> b.amountCents,
     currency |-> "CAD",
     status |-> "created",
     use_auto_deposit |-> IF Has(b, "useAutoDeposit") THEN b.useAutoDeposit ELSE TRUE,
     updated_at |-> 0]

\* schema.sql:10-24: the constraints an INSERT INTO transfers must satisfy
PrimaryKeyFree(row) == \A t \in transfers : t.id # row.id
\* mutant of IdempotencyKeyUnique: the column is not declared UNIQUE
IdempotencyKeyNotUnique(row) == TRUE
IdempotencyKeyUnique(row) == \A t \in transfers : t.idempotency_key # row.idempotency_key
AmountCheck(row) == row.amount_cents > 0 /\ row.amount_cents <= MaxAmountCents
NotNulls(row) ==
    /\ row.idempotency_key # NULL
    /\ row.business_user_id # NULL
    /\ row.recipient_email # NULL

InsertAllowed(row) ==
    /\ PrimaryKeyFree(row)
    /\ IdempotencyKeyUnique(row)
    /\ AmountCheck(row)
    /\ NotNulls(row)

\* ------------------------------------------------------------ the provider
ProviderIds == <<"itx_1", "itx_2", "itx_3", "itx_4", "itx_5", "itx_6">>
\* interacResponse.data of a 2xx answer: {id, status}, the status possibly omitted
ProviderData(r) ==
    {[id |-> ProviderIds[r], status |-> "pending"],
     [id |-> ProviderIds[r]]}

\* mutant of StatusOrSubmitted: no fallback, the row keeps its status
StatusNoFallback(data) ==
    IF TruthyStr(data, "status") THEN data.status ELSE "created"

\* server.js:168,176: providerStatus || 'submitted'
StatusOrSubmitted(data) ==
    IF TruthyStr(data, "status") THEN data.status ELSE "submitted"

\* ------------------------------------------------------- webhook inputs
\* A string whose characters matter (a signature) is the sequence of its characters.
HexDigits == <<"0", "1", "2", "3", "4", "5", "6", "7", "8", "9", "a", "b", "c", "d", "e", "f">>

\* crypto.createHmac('sha256', secret).update(payload).digest('hex'), server.js:71:
\* a keyed digest of DigestHexLen lower-case hex digits.  Raw bodies are numbered;
\* the digest is a function of the body's number and the secret.
Hmac(payload, secret) ==
    [i \in 1..DigestHexLen |->
        HexDigits[((payload * 7 + secret * 5 + i * (payload + secret)) % 16) + 1]]

UpperHex(c) ==
    CASE c = "a" -> "A" [] c = "b" -> "B" [] c = "c" -> "C"
      [] c = "d" -> "D" [] c = "e" -> "E" [] c = "f" -> "F" [] OTHER -> c
ToUpperCase(str) == [i \in 1..Len(str) |-> UpperHex(str[i])]

\* event.data of a webhook about transfer `id` (0: an id no transfer has)
Data(id, status) ==
    [id |-> "itx_9", status |-> status, metadata |-> [localTransferId |-> id]]

\* req.body of the n-th raw body: JSON.parse by the body parser
WebhookBodies ==
    << [type |-> "payout.updated", data |-> Data(1, "pending")],
       [type |-> "payout.updated", data |-> Data(1, "Deposited")],
       [type |-> "payout.updated", data |-> Data(1, "Reversed")],
       [type |-> "payout.updated", data |-> Data(0, "sent")],
       [type |-> "payout.updated", data |-> [id |-> "itx_9", status |-> "sent"]],
       [type |-> "payout.updated", data |-> Without(Data(1, "sent"), "status")],
       [data |-> Data(1, "failed")],
       [type |-> "payout.updated"] >>

JSONparse(rawBody) == WebhookBodies[rawBody]

\* req.rawBody when the body parser did not set it (undefined)
NoBody == 0

\* The deliveries: those signed by the provider, then the forged or damaged ones.
Signed(n) == [rawBody |-> n, signature |-> Hmac(n, WEBHOOK_SECRET)]
Deliveries ==
    [n \in 1..Len(WebhookBodies) |-> Signed(n)]
    \o << [rawBody |-> 2],
          [rawBody |-> 2, signature |-> << >>],
          [rawBody |-> 2, signature |-> ToUpperCase(Hmac(2, WEBHOOK_SECRET))],
          [rawBody |-> 2, signature |-> SubSeq(Hmac(2, WEBHOOK_SECRET), 1, DigestHexLen - 1)],
          [rawBody |-> 2, signature |-> Hmac(1, WEBHOOK_SECRET)],
          [rawBody |-> 2, signature |-> Hmac(2, WEBHOOK_SECRET + 1)],
          [rawBody |-> NoBody, signature |-> Hmac(2, WEBHOOK_SECRET)] >>

\* mutant of verifyWebhookSignature: only the lengths are compared
verifyLengthOnly(payload, signature, secret) ==
    payload # NoBody /\ Len(Hmac(payload, secret)) = Len(signature)

\* server.js:69-76.  update(undefined) and timingSafeEqual on buffers of
\* different lengths throw; the catch turns every exception into false.
verifyWebhookSignature(payload, signature, secret) ==
    IF payload = NoBody THEN FALSE
    ELSE LET hmac == Hmac(payload, secret) IN
         IF Len(hmac) # Len(signature) THEN FALSE
         ELSE \A i \in 1..Len(hmac) : hmac[i] = signature[i]

\* server.js:193: !signature || !verifyWebhookSignature(...)
SignatureRejected(d) ==
    \/ ~Has(d, "signature")
    \/ d.signature = << >>
    \/ ~verifyWebhookSignature(d.rawBody, d.signature, WEBHOOK_SECRET)

\* String.prototype.toLowerCase on the statuses the deliveries carry
ToLowerCase(str) ==
    CASE str = "Deposited" -> "deposited"
      [] str = "Reversed" -> "reversed"
      [] str = "PENDING" -> "pending"
      [] str = "Sent" -> "sent"
      [] str = "FAILED" -> "failed"
      [] str = "In_Review" -> "in_review"
      [] OTHER -> str

\* server.js:211-218
StatusMap ==
    [pending |-> "pending", sent |-> "sent", deposited |-> "deposited", failed |-> "failed"]
\* mutant of MappedStatus: an unknown status is stored lower-cased
MappedStatusLowered(newStatus) ==
    IF ToLowerCase(newStatus) \in DOMAIN StatusMap
    THEN StatusMap[ToLowerCase(newStatus)]
    ELSE ToLowerCase(newStatus)
MappedStatus(newStatus) ==
    IF ToLowerCase(newStatus) \in DOMAIN StatusMap
    THEN StatusMap[ToLowerCase(newStatus)]
    ELSE newStatus

\* server.js:202: metadata?.localTransferId
HasLocalTransferId(data) ==
    Has(data, "metadata") /\ Has(data.metadata, "localTransferId")

\* schema.sql:29-35: the constraints an INSERT INTO transfer_events must satisfy
EventInsertAllowed(row) ==
    /\ row.event_type # NULL
    /\ \E t \in transfers : t.id = row.transfer_id

\* ------------------------------------------------------------------- Init
\* no response was written by the step just taken
Nothing == [op |-> "none"]
Idle == [pc |-> "idle"]
Done == [pc |-> "done"]

Init ==
    /\ transfers = {}
    /\ events = << >>
    /\ req = [r \in Reqs |-> Idle]
    /\ wh = [w \in Hooks |-> Idle]
    /\ calls = [p \in Pairs |-> 0]
    /\ sent = Nothing

\* the number of requests received so far
Received ==
    Cardinality({r \in Reqs : req[r].pc # "idle"})
      + Cardinality({w \in Hooks : wh[w].pc # "idle"})

\* ------------------------------------------ POST /api/payouts/interac
\* server.js:94-126: destructure and validate; then the idempotency SELECT
\* answers: replay the stored row, or generate the local id and issue the INSERT.
\* Validation touches nothing shared, so the step is taken when the SELECT runs.
\* Handlers are interchangeable: they are started in the order of their numbers.
CreateReceive(r, b) ==
    /\ req[r].pc = "idle"
    /\ r > 1 => req[r - 1].pc # "idle"
    /\ Received < MaxRequests
    /\ IF Validate(b) # "ok"
       THEN /\ req' = [req EXCEPT ![r] = Done]
            /\ sent' = [op |-> "create", h |-> r, code |-> 400,
                        error |-> Validate(b), body |-> b]
       ELSE IF SelectByKey(b) # {}
       THEN /\ req' = [req EXCEPT ![r] = Done]
            /\ sent' = [op |-> "create", h |-> r, code |-> 200,
                        transfer |-> CHOOSE t \in SelectByKey(b) : TRUE,
                        body |-> b]
       ELSE /\ req' = [req EXCEPT ![r] = [pc |-> "insert", body |-> b,
                                          localTransferId |-> r]]
            /\ sent' = Nothing
    /\ UNCHANGED <<transfers, events, wh, calls>>

\* server.js:128-138 and 182-185: the INSERT; a constraint violation is thrown
\* and caught by the handler's catch, which answers 500.
CreateInsert(r) ==
    /\ req[r].pc = "insert"
    /\ LET row == NewRow(req[r].localTransferId, req[r].body) IN
       IF InsertAllowed(row)
       THEN /\ transfers' = transfers \cup {row}
            /\ req' = [req EXCEPT ![r].pc = "provider"]
            /\ sent' = Nothing
       ELSE /\ req' = [req EXCEPT ![r] = Done]
            /\ sent' = [op |-> "create", h |-> r, code |-> 500,
                        error |-> "Transfer failed", stage |-> "insert",
                        body |-> req[r].body]
            /\ UNCHANGED transfers
    /\ UNCHANGED <<events, wh, calls>>

\* server.js:149-162: the provider answers 2xx with {id, status}.
\* acceptedAt is history, not read by the handler: how often the row had been
\* updated when the provider accepted the submission.
ProviderSucceed(r, data) ==
    /\ req[r].pc = "provider"
    /\ calls' = [calls EXCEPT ![PairOf(req[r].body)] = @ + 1]
    /\ req' = [req EXCEPT ![r] = [pc |-> "update", body |-> req[r].body,
                                  localTransferId |-> req[r].localTransferId,
                                  data |-> data,
                                  acceptedAt |->
                                      (CHOOSE t \in transfers :
                                           t.id = req[r].localTransferId).updated_at]]
    /\ sent' = Nothing
    /\ UNCHANGED <<transfers, events, wh>>

\* mutant of ProviderFail: the catch rolls the inserted row back
ProviderFailRollback(r) ==
    /\ req[r].pc = "provider"
    /\ calls' = [calls EXCEPT ![PairOf(req[r].body)] = @ + 1]
    /\ req' = [req EXCEPT ![r] = Done]
    /\ transfers' = {t \in transfers : t.id # req[r].localTransferId}
    /\ sent' = [op |-> "create", h |-> r, code |-> 500,
                error |-> "Transfer failed", stage |-> "provider",
                body |-> req[r].body, localTransferId |-> req[r].localTransferId]
    /\ UNCHANGED <<events, wh>>

\* mutant of ProviderFail: no timeout, the call to a silent provider never ends
ProviderFailNoTimeout(r) ==
    /\ req[r].pc = "provider"
    /\ calls' = [calls EXCEPT ![PairOf(req[r].body)] = @ + 1]
    /\ req' = [req EXCEPT ![r].pc = "waiting"]
    /\ sent' = Nothing
    /\ UNCHANGED <<transfers, events, wh>>

\* server.js:149-160 and 182-185: network error, non-2xx or timeout: axios throws.
ProviderFail(r) ==
    /\ req[r].pc = "provider"
    /\ calls' = [calls EXCEPT ![PairOf(req[r].body)] = @ + 1]
    /\ req' = [req EXCEPT ![r] = Done]
    /\ sent' = [op |-> "create", h |-> r, code |-> 500,
                error |-> "Transfer failed", stage |-> "provider",
                body |-> req[r].body, localTransferId |-> req[r].localTransferId]
    /\ UNCHANGED <<transfers, events, wh>>

\* server.js:164-180: the UPDATE after submission, and the 201 answer.
CreateUpdate(r) ==
    /\ req[r].pc = "update"
    /\ transfers' =
         {IF t.id = req[r].localTransferId
          THEN [t EXCEPT !.external_txn_id = req[r].data.id,
                         !.status = StatusOrSubmitted(req[r].data),
                         !.updated_at = Tick(t.updated_at)]
          ELSE t : t \in transfers}
    /\ req' = [req EXCEPT ![r] = Done]
    /\ sent' = [op |-> "create", h |-> r, code |-> 201,
                transfer |-> [id |-> req[r].localTransferId,
                              externalTxnId |-> req[r].data.id,
                              status |-> StatusOrSubmitted(req[r].data)],
                data |-> req[r].data,
                body |-> req[r].body]
    /\ UNCHANGED <<events, wh, calls>>

CreateNext ==
    \/ \E r \in Reqs, b \in CreateBodies : CreateReceive(r, b)
    \/ \E r \in Reqs : CreateInsert(r)
    \/ \E r \in Reqs : \E data \in ProviderData(r) : ProviderSucceed(r, data)
    \/ \E r \in Reqs : ProviderFail(r)
    \/ \E r \in Reqs : CreateUpdate(r)

\* ---------------------------------------------- POST /webhooks/interac
WebhookAnswer(w, d, code) ==
    /\ wh' = [wh EXCEPT ![w] = Done]
    /\ sent' = [op |-> "webhook", h |-> w, code |-> code, delivery |-> d]

\* server.js:188-219: verify the signature, destructure the event; then the SELECT
\* answers and the new status is computed.  An event without data makes the
\* destructuring of line 199 throw, an event without status makes
\* newStatus.toLowerCase() throw: the catch answers 500.  The checks before the SELECT
\* touch nothing shared, so the step is taken when the SELECT runs.
WebhookReceive(w, d) ==
    /\ wh[w].pc = "idle"
    /\ w > 1 => wh[w - 1].pc # "idle"
    /\ Received < MaxRequests
    /\ IF SignatureRejected(Deliveries[d])
       THEN WebhookAnswer(w, d, 400)
       ELSE LET event == JSONparse(Deliveries[d].rawBody) IN
            IF ~Has(event, "data")
            THEN WebhookAnswer(w, d, 500)
            ELSE IF ~HasLocalTransferId(event.data)
            THEN WebhookAnswer(w, d, 200)
            ELSE IF SelectById(event.data.metadata.localTransferId) = {}
            THEN WebhookAnswer(w, d, 200)
            ELSE IF ~Has(event.data, "status")
            THEN WebhookAnswer(w, d, 500)
            ELSE /\ wh' = [wh EXCEPT ![w] =
                      [pc |-> "update", delivery |-> d,
                       transfer |-> event.data.metadata.localTransferId,
                       mappedStatus |-> MappedStatus(event.data.status)]]
                 /\ sent' = Nothing
    /\ UNCHANGED <<transfers, events, req, calls>>

\* mutant of WebhookUpdate: a final status (deposited, failed) is not overwritten
WebhookUpdateForwardOnly(w) ==
    /\ wh[w].pc = "update"
    /\ transfers' =
         {IF t.id = wh[w].transfer /\ t.status \notin {"deposited", "failed"}
          THEN [t EXCEPT !.status = wh[w].mappedStatus, !.updated_at = Tick(t.updated_at)]
          ELSE t : t \in transfers}
    /\ wh' = [wh EXCEPT ![w].pc = "event"]
    /\ sent' = Nothing
    /\ UNCHANGED <<events, req, calls>>

\* mutant of WebhookUpdate: the provider's id of the event is stored as well
WebhookUpdateSetsTxn(w) ==
    /\ wh[w].pc = "update"
    /\ transfers' =
         {IF t.id = wh[w].transfer
          THEN [t EXCEPT !.status = wh[w].mappedStatus,
                         !.external_txn_id = JSONparse(Deliveries[wh[w].delivery].rawBody).data.id,
                         !.updated_at = Tick(t.updated_at)]
          ELSE t : t \in transfers}
    /\ wh' = [wh EXCEPT ![w].pc = "event"]
    /\ sent' = Nothing
    /\ UNCHANGED <<events, req, calls>>

\* server.js:220-223
WebhookUpdate(w) ==
    /\ wh[w].pc = "update"
    /\ transfers' =
         {IF t.id = wh[w].transfer
          THEN [t EXCEPT !.status = wh[w].mappedStatus, !.updated_at = Tick(t.updated_at)]
          ELSE t : t \in transfers}
    /\ wh' = [wh EXCEPT ![w].pc = "event"]
    /\ sent' = Nothing
    /\ UNCHANGED <<events, req, calls>>

\* mutant of WebhookInsertEvent: the delivery is acknowledged, the append is lost
WebhookInsertEventLost(w) ==
    /\ wh[w].pc = "event"
    /\ WebhookAnswer(w, wh[w].delivery, 200)
    /\ UNCHANGED <<transfers, events, req, calls>>

\* server.js:225-231 (and 233-236 when the INSERT violates a constraint)
WebhookInsertEvent(w) ==
    /\ wh[w].pc = "event"
    /\ LET event == JSONparse(Deliveries[wh[w].delivery].rawBody)
           row == [transfer_id |-> wh[w].transfer,
                   event_type |-> IF Has(event, "type") THEN event.type ELSE NULL,
                   event_payload |-> event.data,
                   received_at |-> Len(events) + 1] IN
       IF EventInsertAllowed(row)
       THEN /\ events' = Append(events, row)
            /\ WebhookAnswer(w, wh[w].delivery, 200)
       ELSE /\ WebhookAnswer(w, wh[w].delivery, 500)
            /\ UNCHANGED events
    /\ UNCHANGED <<transfers, req, calls>>

WebhookNext ==
    \/ \E w \in Hooks, d \in DOMAIN Deliveries : WebhookReceive(w, d)
    \/ \E w \in Hooks : WebhookUpdate(w)
    \/ \E w \in Hooks : WebhookInsertEvent(w)

Next == CreateNext \/ WebhookNext

Spec == Init /\ [][Next]_vars

\* The continuation of a handler that is waiting on an awaited call: the store
\* answers every query (server.js:117, 128, 164, 202, 220, 225) and the provider
\* call ends in an answer, an error or the 30 s timeout (server.js:149-160).
Continue ==
    \/ \E r \in Reqs :
          \/ CreateInsert(r)
          \/ \E data \in ProviderData(r) : ProviderSucceed(r, data)
          \/ ProviderFail(r)
          \/ CreateUpdate(r)
    \/ \E w \in Hooks : WebhookUpdate(w) \/ WebhookInsertEvent(w)

\* Node runs the continuation of every settled await: a handler that can go on
\* is not left waiting forever.
FairSpec == Spec /\ WF_vars(Continue)

\* ================================================================ claims
InFlight(r) == req[r].pc \notin {"idle", "done"}
\* no handler is working on a request of pair p
NoneInFlight(p) == \A r \in Reqs : InFlight(r) => PairOf(req[r].body) # p
\* a request that is valid by the rules of the specification: every required
\* input present and the amount within (0, MaxAmountCents]
SpecValid(b) ==
    /\ RequiredFields \subseteq DOMAIN b
    /\ b.amountCents > 0 /\ b.amountCents <= MaxAmountCents
\* the rows stored under the key of pair p all carry pair p
SamePairOnly(p) ==
    \A t \in transfers : t.idempotency_key = p[1] => t.business_user_id = p[2]
\* the response just written answers a request whose INSERT was refused
\* although the idempotency SELECT had found no row of its pair
LostInsertRace ==
    /\ sent.op = "create"
    /\ Has(sent, "stage") /\ sent.stage = "insert"
    /\ SelectByKey(sent.body) # {}

\* C1: among createTransfer requests that carry one pair, under any
\* interleaving, the provider is called for the pair at most once, and exactly
\* once as soon as a valid request of the pair has been answered and none is
\* in flight.
C1_ExactlyOneSubmission ==
    \A p \in Pairs :
        /\ calls[p] <= 1
        /\ (/\ sent.op = "create"
            /\ SpecValid(sent.body)
            /\ PairOf(sent.body) = p
            /\ NoneInFlight(p)
            /\ SamePairOnly(p)) => calls[p] = 1

\* two requests of one pair raced to the INSERT; the loser has just been answered
C1_Witness ==
    /\ LostInsertRace
    /\ SpecValid(sent.body)
    /\ NoneInFlight(PairOf(sent.body))
    /\ SamePairOnly(PairOf(sent.body))
    /\ calls[PairOf(sent.body)] = 1

\* C2: the request that loses the insert race completes with a success result
\* carrying the winner's transfer, never with an error.
C2_LoserObservesWinner ==
    LostInsertRace /\ SamePairOnly(PairOf(sent.body)) =>
        /\ sent.code = 200
        /\ sent.transfer \in SelectByKey(sent.body)

\* the body a create handler received in the step just taken
ReceivedBody(r) == IF req'[r].pc = "done" THEN sent'.body ELSE req'[r].body
CreateReceives(r) == req[r].pc = "idle" /\ req'[r].pc # "idle"
\* the stored rows of the pair of body b whose creating request has completed
CompletedFor(b) ==
    {t \in transfers : /\ t.idempotency_key = b.idempotencyKey
                       /\ t.business_user_id = b.businessUserId
                       /\ req[t.id].pc = "done"}
\* the replay answer: 200 with the stored row, nothing written, no provider call
Replayed(r, b) ==
    /\ req'[r].pc = "done"
    /\ sent'.op = "create" /\ sent'.h = r /\ sent'.code = 200
    /\ sent'.transfer \in CompletedFor(b)
    /\ transfers' = transfers
    /\ calls' = calls

\* C3 as stated: every request received after a request of its pair completed
\* (and stored its transfer) is answered by the replay.
C3_EveryRepeatReplayed ==
    [][\A r \in Reqs :
         (/\ CreateReceives(r)
          /\ Has(ReceivedBody(r), "idempotencyKey")
          /\ Has(ReceivedBody(r), "businessUserId")
          /\ CompletedFor(ReceivedBody(r)) # {})
         => Replayed(r, ReceivedBody(r))]_vars

\* C3 amended: every request that passes validation and is received after a
\* request of its pair completed is answered 200 with the stored transfer; the
\* stored rows are left unchanged and no provider call is made.
C3_ValidRepeatReplayed ==
    [][\A r \in Reqs :
         (/\ CreateReceives(r)
          /\ Validate(ReceivedBody(r)) = "ok"
          /\ CompletedFor(ReceivedBody(r)) # {})
         => Replayed(r, ReceivedBody(r))]_vars

\* a replay has just been answered with the transfer of a completed request
C3_Witness ==
    /\ sent.op = "create" /\ sent.code = 200
    /\ req[sent.transfer.id].pc = "done"
    /\ sent.transfer \in transfers

\* C4: at most one Transfer row exists for each (idempotencyKey, businessUserId).
C4_OneRowPerPair ==
    \A t1, t2 \in transfers :
        (/\ t1.idempotency_key = t2.idempotency_key
         /\ t1.business_user_id = t2.business_user_id) => t1 = t2

\* a second INSERT for a stored pair has just been refused, after a webhook
\* went through for the stored transfer
C4_Witness ==
    /\ LostInsertRace
    /\ Cardinality(SelectByKey(sent.body)) = 1
    /\ events # << >>

\* C5: amountCents = 2,500,000 is accepted; 2,500,001 is rejected with the
\* limit error (400); 0 and every negative amount are rejected as invalid
\* input (400, not 500); a rejected request stores no row and makes no call.
C5_AmountBounds ==
    (sent.op = "create" /\ RequiredFields \subseteq DOMAIN sent.body) =>
        /\ sent.body.amountCents = MaxAmountCents => sent.code # 400
        /\ sent.body.amountCents = MaxAmountCents + 1 =>
               sent.code = 400 /\ sent.error = "Exceeds $25K limit"
        /\ sent.body.amountCents <= 0 => sent.code = 400
        /\ (sent.body.amountCents > MaxAmountCents \/ sent.body.amountCents <= 0) =>
               /\ \A t \in transfers : t.id # sent.h
               /\ req[sent.h].pc = "done"

\* C6: a request that omits one of businessUserId, amountCents, recipientEmail,
\* recipientName, idempotencyKey is answered 400; no row is inserted for it.
C6_MissingFieldRejected ==
    /\ (sent.op = "create" /\ ~(RequiredFields \subseteq DOMAIN sent.body))
           => sent.code = 400
    /\ \A t \in transfers : t.recipient_name # NULL

\* what the provider-reported status must become in the store
ReportedOrSubmitted(data) == IF Has(data, "status") THEN data.status ELSE "submitted"
RowOf(id, table) == CHOOSE t \in table : t.id = id

\* C7: a request that found no record inserts a row with status 'created'; when
\* the provider answered {id, status} the row gets externalTxnId = id and
\* status = the reported status ('submitted' when none was reported), and the
\* answer is 201 with the transfer id, externalTxnId and status.
C7_CreatedThenSubmitted ==
    [][\A r \in Reqs :
         /\ (req[r].pc = "insert" /\ req'[r].pc = "provider") =>
               /\ transfers' \ transfers = {RowOf(r, transfers')}
               /\ RowOf(r, transfers').status = "created"
               /\ RowOf(r, transfers').external_txn_id = NULL
               /\ req'[r].localTransferId = r
         /\ (req[r].pc = "update" /\ req'[r].pc # "update") =>
               /\ RowOf(r, transfers').external_txn_id = req[r].data.id
               /\ RowOf(r, transfers').status = ReportedOrSubmitted(req[r].data)
               /\ \A t \in transfers : t.id # r => t \in transfers'
               /\ req'[r].pc = "done"
               /\ sent'.op = "create" /\ sent'.h = r /\ sent'.code = 201
               /\ sent'.transfer = [id |-> r, externalTxnId |-> req[r].data.id,
                                    status |-> ReportedOrSubmitted(req[r].data)]
         /\ (req[r].pc = "provider" /\ req'[r].pc = "update") =>
               /\ req'[r].data \in ProviderData(r)
               /\ transfers' = transfers]_vars

\* a 201 has just been answered for a submission the provider gave no status for
C7_Witness ==
    /\ sent.op = "create" /\ sent.code = 201
    /\ ~Has(sent.data, "status")
    /\ RowOf(sent.h, transfers).status = "submitted"
    /\ RowOf(sent.h, transfers).external_txn_id = sent.data.id

\* C8: when the provider call fails, the row the request inserted stays stored
\* with a null externalTxnId and, unless a webhook wrote it, status 'created';
\* the answer is 500; the request made one provider call and makes no other.
C8_ProviderFailureKeepsRow ==
    [][\A r \in Reqs :
         /\ (req[r].pc = "provider" /\ req'[r].pc = "done") =>
               /\ transfers' = transfers
               /\ \E t \in transfers' :
                     /\ t.id = req[r].localTransferId
                     /\ t.external_txn_id = NULL
                     /\ t.updated_at = 0 => t.status = "created"
               /\ sent'.op = "create" /\ sent'.h = r /\ sent'.code = 500
               /\ calls' = [calls EXCEPT ![PairOf(req[r].body)] = calls[PairOf(req[r].body)] + 1]
         /\ req[r].pc = "done" =>
               /\ req'[r].pc = "done"
               /\ \A t \in transfers : t.id = r /\ t.external_txn_id = NULL =>
                     \E u \in transfers' : u.id = r /\ u.external_txn_id = NULL
         /\ req[r].pc # "provider" /\ (\A q \in Reqs : q # r => req'[q] = req[q])
               => calls' = calls]_vars

\* the provider call has just failed; the row is there, status 'created'
C8_Witness ==
    /\ sent.op = "create" /\ sent.code = 500
    /\ sent.stage = "provider"
    /\ \E t \in transfers : /\ t.id = sent.localTransferId
                            /\ t.status = "created"
                            /\ t.external_txn_id = NULL
    /\ calls[PairOf(sent.body)] = 1

\* the delivery a webhook handler received in the step just taken
WebhookReceives(w) == wh[w].pc = "idle" /\ wh'[w].pc # "idle"
ReceivedDelivery(w) ==
    Deliveries[IF wh'[w].pc = "done" THEN sent'.delivery ELSE wh'[w].delivery]
\* the signature header is the hex digest of the raw body under the shared secret
DigestMatches(d) ==
    /\ Has(d, "signature")
    /\ d.rawBody # NoBody
    /\ d.signature = Hmac(d.rawBody, WEBHOOK_SECRET)

\* C9: a webhook whose signature header is missing or is not the HMAC-SHA256 hex
\* digest of the raw body is answered 400 whatever the body contains, and leaves
\* transfers and transfer_events unchanged.
C9_BadSignatureRejected ==
    [][\A w \in Hooks :
         (WebhookReceives(w) /\ ~DigestMatches(ReceivedDelivery(w))) =>
             /\ wh'[w].pc = "done"
             /\ sent'.op = "webhook" /\ sent'.h = w /\ sent'.code = 400
             /\ transfers' = transfers
             /\ events' = events]_vars

\* a delivery whose signature is the digest of another body has just been
\* rejected, although its body names a stored transfer
C9_Witness ==
    /\ sent.op = "webhook" /\ sent.code = 400
    /\ Has(Deliveries[sent.delivery], "signature")
    /\ Len(Deliveries[sent.delivery].signature) = DigestHexLen
    /\ Deliveries[sent.delivery].rawBody # NoBody
    /\ SelectById(JSONparse(Deliveries[sent.delivery].rawBody).data.metadata.localTransferId) # {}

\* a verified delivery whose event has no metadata, or names no stored transfer
Unmatched(d) ==
    /\ DigestMatches(d)
    /\ Has(JSONparse(d.rawBody), "data")
    /\ \/ ~Has(JSONparse(d.rawBody).data, "metadata")
       \/ \A t \in transfers :
             t.id # JSONparse(d.rawBody).data.metadata.localTransferId

WebhookFinishes(w) == wh[w].pc # "done" /\ wh'[w].pc = "done"
FinishedDelivery == Deliveries[sent'.delivery]
EventOf(d) == JSONparse(d.rawBody)
\* a verified delivery whose event names a stored transfer
VerifiedMatching(d) ==
    /\ DigestMatches(d)
    /\ Has(EventOf(d), "data")
    /\ HasLocalTransferId(EventOf(d).data)
    /\ \E t \in transfers : t.id = EventOf(d).data.metadata.localTransferId
\* the step just taken appended one event row, for the transfer d names
AppendedOneFor(d) ==
    /\ Len(events') = Len(events) + 1
    /\ SubSeq(events', 1, Len(events)) = events
    /\ events'[Len(events')].transfer_id = EventOf(d).data.metadata.localTransferId
    /\ events'[Len(events')].event_payload = EventOf(d).data

RawStatuses ==
    {"pending", "sent", "deposited", "failed", "Deposited", "PENDING", "Sent", "FAILED",
     "Reversed", "In_Review", "reversed"}
KnownStatuses == {"pending", "sent", "deposited", "failed"}
\* the status the state machine is to store for raw status r
NextStatus(r) == IF ToLowerCase(r) \in KnownStatuses THEN ToLowerCase(r) ELSE r
\* the status the delivery of handler w reports
RawStatusOf(w) == EventOf(Deliveries[wh[w].delivery]).data.status
WebhookWrites(w) == wh[w].pc = "update" /\ wh'[w].pc = "event"

\* C12: whatever the current status, a verified matching webhook with raw
\* status r stores lower-cased r when that is one of pending, sent, deposited,
\* failed, and r itself, not lower-cased, otherwise.
C12_MappedOrVerbatim ==
    /\ [](\A r \in RawStatuses : MappedStatus(r) = NextStatus(r))
    /\ [][\A w \in Hooks : WebhookWrites(w) =>
            /\ wh[w].mappedStatus = NextStatus(RawStatusOf(w))
            /\ \A t \in transfers' :
                 t.id = wh[w].transfer => t.status = NextStatus(RawStatusOf(w))]_vars

\* 'Deposited' has just been stored as 'deposited' on a submitted transfer
C12_Witness ==
    \E w \in Hooks :
        /\ wh[w].pc = "event"
        /\ RawStatusOf(w) = "Deposited"
        /\ \E t \in transfers : /\ t.id = wh[w].transfer
                                /\ t.status = "deposited"
                                /\ t.external_txn_id # NULL
                                /\ t.updated_at = 2

\* C13: the status update and the event append of one webhook are one unit:
\* a handler that has written its status finishes, with 200 or with 500, only
\* with its TransferEvent row appended.
C13_StatusAndEventTogether ==
    [][\A w \in Hooks :
         (wh[w].pc = "event" /\ wh'[w].pc = "done") =>
             /\ Len(events') = Len(events) + 1
             /\ events'[Len(events')].transfer_id = wh[w].transfer]_vars

SixStatuses == {"created", "submitted", "pending", "sent", "deposited", "failed"}

\* C14 as stated: the status of every stored Transfer is one of created,
\* submitted, pending, sent, deposited, failed.
C14_StatusEnumerated == \A t \in transfers : t.status \in SixStatuses

\* the statuses the provider reports in an answer to a submission, and the ones
\* it reports in the events it signs
ReportedOnSubmission ==
    UNION {{d.status : d \in {x \in ProviderData(r) : Has(x, "status")}} : r \in Reqs}
ReportedInEvents ==
    {WebhookBodies[i].data.status :
        i \in {j \in DOMAIN WebhookBodies :
                 Has(WebhookBodies[j], "data") /\ Has(WebhookBodies[j].data, "status")}}

\* C14 amended: the status of every stored Transfer is created, or submitted,
\* or a status the provider reported: as reported in the answer to the
\* submission; from a verified webhook lower-cased when that gives pending,
\* sent, deposited or failed, and as reported otherwise.
C14_StatusFromProvider ==
    \A t \in transfers :
        t.status \in {"created", "submitted"} \cup ReportedOnSubmission
                     \cup {NextStatus(r) : r \in ReportedInEvents}

\* a transfer carries a status outside the six that a webhook passed through
C14_Witness ==
    \E t \in transfers : /\ t.status \notin SixStatuses
                         /\ \E w \in Hooks : /\ wh[w].pc = "event"
                                             /\ wh[w].transfer = t.id
                                             /\ wh[w].mappedStatus = t.status

\* C15: status progression is not forward-only: the write of a verified
\* matching webhook replaces the stored status by its mapped status whatever
\* the stored status is, and leaves every other transfer alone; so a transfer
\* that was deposited becomes pending again.
C15_WebhookOverwritesAnyStatus ==
    [][\A w \in Hooks : WebhookWrites(w) =>
         \A t \in transfers :
            IF t.id = wh[w].transfer
            THEN RowOf(t.id, transfers').status = wh[w].mappedStatus
            ELSE t \in transfers']_vars

\* a transfer written by two webhooks only, whose 'Deposited' event is logged,
\* is pending: the late 'pending' webhook has just overwritten 'deposited'
C15_Witness ==
    \E w \in Hooks :
        /\ wh[w].pc = "event"
        /\ wh[w].mappedStatus = "pending"
        /\ \E t \in transfers : /\ t.id = wh[w].transfer
                                /\ t.status = "pending"
                                /\ t.updated_at = 2
                                /\ t.external_txn_id = NULL
        /\ \E i \in DOMAIN events : /\ events[i].transfer_id = wh[w].transfer
                                    /\ events[i].event_payload.status = "Deposited"

\* C16: the creation path does not overwrite what a webhook wrote: when the
\* row was written by a webhook after the provider accepted the submission and
\* before the post-submission update, that update leaves the stored status as
\* the webhook wrote it.
C16_CreateKeepsWebhookStatus ==
    [][\A r \in Reqs :
         (/\ req[r].pc = "update" /\ req'[r].pc = "done"
          /\ RowOf(req[r].localTransferId, transfers).updated_at > req[r].acceptedAt)
         => RowOf(req[r].localTransferId, transfers').status
              = RowOf(req[r].localTransferId, transfers).status]_vars

\* C17: externalTxnId is null until the provider call of the transfer has
\* succeeded, is written at most once (by the post-submission update of the
\* request that created the row), and no webhook step changes it.
C17_ExternalTxnIdWrittenOnce ==
    /\ [](\A t \in transfers :
            t.external_txn_id # NULL =>
                /\ req[t.id].pc = "done"
                /\ calls[<<t.idempotency_key, t.business_user_id>>] >= 1)
    /\ [][\A t \in transfers :
            LET after == RowOf(t.id, transfers') IN
            /\ t.external_txn_id # NULL => after.external_txn_id = t.external_txn_id
            /\ after.external_txn_id # t.external_txn_id =>
                   /\ req[t.id].pc = "update" /\ req'[t.id].pc = "done"
                   /\ after.external_txn_id = req[t.id].data.id
            /\ (\E w \in Hooks : wh'[w] # wh[w]) =>
                   after.external_txn_id = t.external_txn_id]_vars

\* a submitted transfer keeps its externalTxnId after a webhook wrote its status
C17_Witness ==
    \E t \in transfers :
        /\ t.external_txn_id # NULL
        /\ t.updated_at = 2
        /\ \E i \in DOMAIN events : events[i].transfer_id = t.id
        /\ \E w \in Hooks : wh[w].pc = "done"

\* C18: a valid request whose pair has no stored Transfer is not refused at the
\* INSERT, also when another business user stores a Transfer under the same
\* idempotency key: it creates its own row and is submitted.
C18_SameKeyOtherUserCreates ==
    ~(/\ sent.op = "create" /\ sent.code = 500
      /\ Has(sent, "stage") /\ sent.stage = "insert"
      /\ SpecValid(sent.body)
      /\ SelectByKey(sent.body) = {}
      /\ \E t \in transfers : /\ t.idempotency_key = sent.body.idempotencyKey
                              /\ t.business_user_id # sent.body.businessUserId)

\* the rows left in 'created' by a failed provider call: the request that
\* inserted the row is over and no externalTxnId was written
Stranded(t) == req[t.id].pc = "done" /\ t.external_txn_id = NULL
StrandedFor(b) ==
    {t \in transfers : /\ t.idempotency_key = b.idempotencyKey
                       /\ t.business_user_id = b.businessUserId
                       /\ Stranded(t)}
\* once stranded, never submitted again, and the status moves by webhooks only
StaysStranded ==
    \A t \in transfers :
        Stranded(t) =>
            /\ calls'[<<t.idempotency_key, t.business_user_id>>]
                 = calls[<<t.idempotency_key, t.business_user_id>>]
            /\ \E u \in transfers' : u.id = t.id
            /\ RowOf(t.id, transfers').external_txn_id = NULL
            /\ req'[t.id].pc = "done"
            /\ RowOf(t.id, transfers').status # t.status =>
                   \E w \in Hooks : WebhookWrites(w) /\ wh[w].transfer = t.id

\* C19 as stated: every later request with the pair of a stranded Transfer is
\* answered 200 with the stored record and makes no provider call; the
\* transfer is never submitted again and its status moves by webhooks only.
C19_EveryRetryReplayed ==
    [][/\ \A r \in Reqs :
            (/\ CreateReceives(r)
             /\ Has(ReceivedBody(r), "idempotencyKey")
             /\ Has(ReceivedBody(r), "businessUserId")
             /\ StrandedFor(ReceivedBody(r)) # {})
            => /\ Replayed(r, ReceivedBody(r))
               /\ sent'.transfer \in StrandedFor(ReceivedBody(r))
       /\ StaysStranded]_vars

\* C19 amended: every later request with the pair of a stranded Transfer that
\* passes validation is answered 200 with the stored record and makes no
\* provider call; whatever the later requests, the transfer is never submitted
\* again and its status moves by webhooks only.
C19_ValidRetryReplayed ==
    [][/\ \A r \in Reqs :
            (/\ CreateReceives(r)
             /\ Validate(ReceivedBody(r)) = "ok"
             /\ StrandedFor(ReceivedBody(r)) # {})
            => /\ Replayed(r, ReceivedBody(r))
               /\ sent'.transfer \in StrandedFor(ReceivedBody(r))
       /\ StaysStranded]_vars

\* a retry has just been answered with the record the failed call left in 'created'
C19_Witness ==
    /\ sent.op = "create" /\ sent.code = 200
    /\ sent.transfer.status = "created"
    /\ sent.transfer \in transfers
    /\ Stranded(sent.transfer)
    /\ calls[PairOf(sent.body)] = 1

ResponseCodes == {200, 201, 400, 500}

\* C20: no createTransfer request blocks: when the store answers and the
\* provider call ends, every started request is eventually answered; a request
\* is answered exactly once, when its handler finishes, with 200, 201, 400 or
\* 500, and a provider call that fails or times out is answered 500.
C20_EveryRequestAnswered ==
    /\ \A r \in Reqs : InFlight(r) ~> (req[r].pc = "done")
    /\ [][\A r \in Reqs :
            /\ req[r].pc = "done" => req'[r].pc = "done"
            /\ IF req[r].pc # "done" /\ req'[r].pc = "done"
               THEN sent'.op = "create" /\ sent'.h = r /\ sent'.code \in ResponseCodes
               ELSE ~(sent' # sent /\ sent'.op = "create" /\ sent'.h = r)
            /\ (req[r].pc = "provider" /\ req'[r].pc = "done") =>
                   sent'.code = 500 /\ sent'.error = "Transfer failed"]_vars

\* a request whose provider call timed out has been answered 500 and no
\* request is left waiting
C20_Witness ==
    /\ sent.op = "create" /\ sent.code = 500
    /\ Has(sent, "stage") /\ sent.stage = "provider"
    /\ req[sent.h].pc = "done"
    /\ \A r \in Reqs : ~InFlight(r)
    /\ \E t \in transfers : t.id = sent.localTransferId /\ t.status = "created"

=============================================================================
